---- MODULE Spec2Model ----
(***************************************************************************)
(* CHEESA chatbot: the HTTP gateway of src/index.mjs (CORS, preflight,     *)
(* POST /api/chat relay to the generative-language provider, static files  *)
(* with SPA fallback) and the browser client (chat form submit handler).   *)
(*                                                                         *)
(* JavaScript strings are sequences of symbols; a JSON value is a record   *)
(* [t |-> its type, v |-> what String(value) yields].                      *)
(***************************************************************************)
EXTENDS Integers, Sequences, FiniteSets, TLC

\* ------------------------------------------------------------------ bounds
MaxReq == 2      \* requests (or client submissions) that may be in flight
MaxLen == 2      \* longest message text, in symbols
MaxHist == 2     \* longest conversationHistory drawn for the relay

Reqs == 1..MaxReq

SeqsUpTo(S, n) == UNION {[1..k -> S] : k \in 0..n}

Front(s) == SubSeq(s, 1, Len(s) - 1)

\* ------------------------------------------------------- JavaScript values
Whitespace == {" "}
Chars == {" ", "a", "b"}
Texts == SeqsUpTo(Chars, MaxLen)

Undefined == [t |-> "undefined", v |-> <<>>]
JNull == [t |-> "null", v |-> <<>>]
JNumber == [t |-> "number", v |-> <<"7">>]
JString(s) == [t |-> "string", v |-> s]

\* String(x ?? '')
ToText(x) == IF x.t \in {"undefined", "null"} THEN <<>> ELSE x.v

RECURSIVE TrimStart(_)
TrimStart(s) ==
  IF s # <<>> /\ Head(s) \in Whitespace THEN TrimStart(Tail(s)) ELSE s

RECURSIVE TrimEnd(_)
TrimEnd(s) ==
  IF s # <<>> /\ s[Len(s)] \in Whitespace THEN TrimEnd(Front(s)) ELSE s

\* a validation that forgets to trim
trimNone(s) == s

\* String.prototype.trim
trim(s) == TrimEnd(TrimStart(s))

\* ------------------------------------------------------------ request body
\* What readJson makes of the request: the body stream fails ("aborted"), or
\* JSON.parse throws on its text ("malformed"), or yields null, or an object
\* whose absent keys read as undefined.
AbortedBody ==
  [t |-> "aborted", message |-> [t |-> "undefined", v |-> <<>>],
   conversationHistory |-> [t |-> "undefined", items |-> <<>>]]

MalformedBody ==
  [t |-> "malformed", message |-> Undefined,
   conversationHistory |-> [t |-> "undefined", items |-> <<>>]]

NullBody ==
  [t |-> "null", message |-> Undefined,
   conversationHistory |-> [t |-> "undefined", items |-> <<>>]]

ObjectBody(m, h) == [t |-> "object", message |-> m, conversationHistory |-> h]

NoHistory == [t |-> "undefined", items |-> <<>>]
NotAnArray == [t |-> "string", items |-> <<>>]
JArray(items) == [t |-> "array", items |-> items]

ChatTurn(role, content) == [role |-> role, content |-> content]

\* const message = typeof body?.message === 'string' ? body.message : ''
MessageOf(body) ==
  IF body.t = "object" /\ body.message.t = "string" THEN body.message.v ELSE <<>>

\* const conversationHistory = Array.isArray(body?.conversationHistory) ? ... : []
HistoryOf(body) ==
  IF body.t = "object" /\ body.conversationHistory.t = "array"
  THEN body.conversationHistory.items
  ELSE <<>>

\* ------------------------------------------------------------ prompt turns
systemPrompt == <<"You are CHEEStron">>
greeting == <<"I'm CHEEStron">>

Turn(role, text) == [role |-> role, text |-> text]

\* a role compared without regard to case
NormalizeRoleAnyCase(role) ==
  IF role.t = "string" /\ role.v \in {<<"user">>, <<"User">>} THEN "user" ELSE "model"

\* msg?.role === 'user' ? 'user' : 'model'
NormalizeRole(role) == IF role = JString(<<"user">>) THEN "user" ELSE "model"

\* a history mapped in reverse order
MapHistoryReversed(h) ==
  [i \in 1..Len(h) |->
    [role |-> IF h[Len(h) + 1 - i].role = [t |-> "string", v |-> <<"user">>]
              THEN "user" ELSE "model",
     text |-> ToText(h[Len(h) + 1 - i].content)]]

\* conversationHistory.map((msg) => ({role: ..., parts: [{text: String(msg?.content ?? '')}]}))
MapHistory(h) ==
  [i \in 1..Len(h) |-> Turn(NormalizeRole(h[i].role), ToText(h[i].content))]

\* the history handed to model.startChat
StartChatHistory(h) ==
  <<Turn("user", systemPrompt), Turn("model", greeting)>> \o MapHistory(h)

\* chat.sendMessage(message): the provider sees the session history followed
\* by the message as a user turn
SendMessage(history, message) == history \o <<Turn("user", message)>>

\* the provider test double that echoes its input: the text of the last turn
EchoProvider(turns) == turns[Len(turns)].text

\* -------------------------------------------------------------- responses
mimeTypes == [e \in {".html", ".js", ".css", ".json"} |->
  CASE e = ".html" -> "text/html"
    [] e = ".js" -> "text/javascript"
    [] e = ".css" -> "text/css"
    [] e = ".json" -> "application/json"]

\* mimeTypes[ext] || 'application/octet-stream'
ContentTypeFor(ext) ==
  IF ext \in DOMAIN mimeTypes THEN mimeTypes[ext] ELSE "application/octet-stream"

NoResponse == [status |-> 0, ctype |-> "", kind |-> "none", payload |-> <<>>]

\* sendJson(res, statusCode, payload)
sendJson(statusCode, payload) ==
  [status |-> statusCode, ctype |-> "application/json; charset=utf-8",
   kind |-> "json", payload |-> payload]

\* res.statusCode = n; res.end(text), with whatever Content-Type was set before
EndText(statusCode, ctype, text) ==
  [status |-> statusCode, ctype |-> ctype, kind |-> "text", payload |-> <<text>>]

\* res.writeHead(204); res.end()
Preflight == [status |-> 204, ctype |-> "", kind |-> "empty", payload |-> <<>>]

\* stream.on('open'): Content-Type is set and the file is piped, status stays 200
Piped(ctype, file) ==
  [status |-> 200, ctype |-> ctype, kind |-> "file", payload |-> file]

\* CORS headers without Access-Control-Allow-Headers
CorsHeadersTwo(origin, vercelUrl) ==
  [h \in {"Access-Control-Allow-Origin", "Access-Control-Allow-Methods"} |->
    IF h = "Access-Control-Allow-Origin"
    THEN IF vercelUrl # "" THEN <<"https://", vercelUrl>>
         ELSE IF origin # "" THEN <<origin>> ELSE <<"*">>
    ELSE <<"GET, POST, OPTIONS">>]

\* the three CORS headers every response carries
CorsHeaders(origin, vercelUrl) ==
  [h \in {"Access-Control-Allow-Origin", "Access-Control-Allow-Methods",
          "Access-Control-Allow-Headers"} |->
    CASE h = "Access-Control-Allow-Origin" ->
           IF vercelUrl # "" THEN <<"https://", vercelUrl>>
           ELSE IF origin # "" THEN <<origin>> ELSE <<"*">>
      [] h = "Access-Control-Allow-Methods" -> <<"GET, POST, OPTIONS">>
      [] h = "Access-Control-Allow-Headers" -> <<"Content-Type">>]

NoHeaders == <<>>

\* ----------------------------------------------------------- error handling
\* A thrown value and where it ends: an outcome either carries the response
\* the handler wrote, or escapes the handler (threw).
ErrorOf(msg) == [name |-> "Error", message |-> msg]

Wrote(response) == [threw |-> FALSE, res |-> response]

\* catch (error) { res.statusCode = 500; res.end('Internal Server Error') }
OuterCatch(error) == Wrote(EndText(500, "", "Internal Server Error"))

\* a chat route without its own try/catch: the error reaches the outer catch
InnerCatchMissing(error) == OuterCatch(error)

\* catch (error) { sendJson(res, 500, {error: 'Internal server error', details: error.message}) }
InnerCatch(error) ==
  Wrote(sendJson(500, [error |-> <<"Internal server error">>,
                        details |-> error.message]))

\* ---------------------------------------------------------------- requests
NoRequest ==
  [method |-> "none", urlOk |-> TRUE, path |-> <<>>, origin |-> "",
   body |-> MalformedBody]

Request(method, path, origin, body) ==
  [method |-> method, urlOk |-> TRUE, path |-> path, origin |-> origin,
   body |-> body]

\* a request whose Host header makes new URL(...) throw
BadHost(q) == [q EXCEPT !.urlOk = FALSE]

ChatPath == <<"api", "chat">>

\* url.pathname === '/' ? '/index.html' : url.pathname
Pathname(path) == IF path = <<>> THEN <<"index.html">> ELSE path

\* extname(pathname).toLowerCase(), on the names the model serves
ExtName(path) ==
  LET name == path[Len(path)]
  IN CASE name = "index.html" -> ".html"
       [] name = "app.js" -> ".js"
       [] name = "does-not-exist.xyz" -> ".xyz"
       [] OTHER -> ""

\* -------------------------------------------------------------- filesystem
\* The tree below public/: existing paths and what each is.
RECURSIVE Stat(_, _)
\* fs.stat: the kind of the entry, or the errno of the failed lookup
Stat(tree, path) ==
  IF path = <<>> THEN "dir"
  ELSE LET parent == Stat(tree, Front(path))
       IN CASE parent = "dir" ->
                 IF path \in DOMAIN tree THEN tree[path] ELSE "ENOENT"
            [] parent = "file" -> "ENOTDIR"
            [] OTHER -> parent

\* createReadStream(filePath): 'open' then data for a regular file, else 'error'
Readable(tree, path) == Stat(tree, path) = "file"

TreeWithEntry ==
  [p \in {<<"index.html">>, <<"app.js">>, <<"assets">>} |->
    IF p = <<"assets">> THEN "dir" ELSE "file"]

TreeWithoutEntry ==
  [p \in {<<"app.js">>, <<"assets">>, <<"assets", "index.html">>} |->
    IF p = <<"assets">> THEN "dir" ELSE "file"]

Trees == {TreeWithEntry, TreeWithoutEntry}

EntryDocument == <<"index.html">>

\* -------------------------------------------------------------------- state
VARIABLES
  tree,                 \* the static asset tree below public/
  vercelUrl,            \* process.env.VERCEL_URL ("" when unset)
  alive,                \* the server process has not exited
  req,                  \* req[r]: the request handler r was invoked with
  pc,                   \* pc[r]: where handler r is suspended
  headers,              \* headers[r]: response headers set by res.setHeader
  res,                  \* res[r]: the response written to request r
  file,                 \* file[r]: [path, ctype] handed to sendFile
  calls,                \* provider invocations, in order: [req, turns]
  fsReads,              \* createReadStream calls: <<r, path>>
  conversationHistory,  \* browser: the client's conversationHistory
  pushedBy,             \* browser: which submission pushed each history entry
  cpc,                  \* browser: cpc[s], where submit handler s is suspended
  sent,                 \* browser: sent[s], the fetch request of submission s
  sentBy                \* browser: pushedBy as it was when sent[s] was built

serverVars == <<tree, vercelUrl, alive, req, pc, headers, res, file, calls, fsReads>>
clientVars == <<conversationHistory, pushedBy, cpc, sent, sentBy>>
vars == <<tree, vercelUrl, alive, req, pc, headers, res, file, calls, fsReads,
          conversationHistory, pushedBy, cpc, sent, sentBy>>

NoFile == [path |-> <<>>, ctype |-> ""]

Init ==
  /\ tree \in Trees
  /\ vercelUrl \in {"", "cheesa.vercel.app"}
  /\ alive = TRUE
  /\ req = [r \in Reqs |-> NoRequest]
  /\ pc = [r \in Reqs |-> "new"]
  /\ headers = [r \in Reqs |-> NoHeaders]
  /\ res = [r \in Reqs |-> NoResponse]
  /\ file = [r \in Reqs |-> NoFile]
  /\ calls = <<>>
  /\ fsReads = {}
  /\ conversationHistory = <<>>
  /\ pushedBy = <<>>
  /\ cpc = [s \in Reqs |-> "idle"]
  /\ sent = [s \in Reqs |-> NoRequest]
  /\ sentBy = [s \in Reqs |-> <<>>]

\* The handler's outcome reaches the client, or escapes the handler: an
\* unhandled rejection, on which the process exits (process.exit(1)).
Finish(r, out) ==
  IF out.threw
  THEN /\ alive' = FALSE
       /\ pc' = [pc EXCEPT ![r] = "crashed"]
       /\ res' = res
  ELSE /\ alive' = alive
       /\ pc' = [pc EXCEPT ![r] = "done"]
       /\ res' = [res EXCEPT ![r] = out.res]

\* sendFile(res, filePath, contentType): createReadStream is called at once
SendFile(r, path, ctype) ==
  /\ file' = [file EXCEPT ![r] = [path |-> path, ctype |-> ctype]]
  /\ fsReads' = fsReads \cup {<<r, path>>}
  /\ pc' = [pc EXCEPT ![r] = "stream"]
  /\ UNCHANGED <<alive, res>>

\* The handler runs from its invocation to its first suspension: CORS headers,
\* preflight, URL parsing and routing.
Accept(r, q) ==
  /\ alive
  /\ pc[r] = "new"
  /\ q.method # "none"
  /\ req' = [req EXCEPT ![r] = q]
  /\ headers' = [headers EXCEPT ![r] = CorsHeaders(q.origin, vercelUrl)]
  /\ IF q.method = "OPTIONS"
     THEN Finish(r, Wrote(Preflight))
     ELSE IF ~q.urlOk
     THEN Finish(r, OuterCatch(ErrorOf(<<"Invalid URL">>)))
     ELSE IF q.method = "POST" /\ Pathname(q.path) = ChatPath
     THEN /\ pc' = [pc EXCEPT ![r] = "readJson"]
          /\ UNCHANGED <<alive, res>>
     ELSE IF q.method = "GET"
     THEN /\ pc' = [pc EXCEPT ![r] = "stat"]
          /\ UNCHANGED <<alive, res>>
     ELSE Finish(r, Wrote(EndText(404, "", "Not Found")))
  /\ UNCHANGED <<tree, vercelUrl, file, calls, fsReads>>

\* What the chat route does once readJson settles: a rejection (stream error
\* or JSON.parse) goes to the catch block, then validation, then the provider
\* call (startChat + sendMessage).
ChatOutcome(body) ==
  IF body.t = "aborted"
  THEN [next |-> "catch", error |-> ErrorOf(<<"aborted">>)]
  ELSE IF body.t = "malformed"
  THEN [next |-> "catch", error |-> ErrorOf(<<"Unexpected token">>)]
  ELSE IF trim(MessageOf(body)) = <<>>
  THEN [next |-> "invalid", error |-> ErrorOf(<<>>)]
  ELSE [next |-> "call", error |-> ErrorOf(<<>>)]

\* req.on('end') or req.on('error'): readJson settles and the handler resumes
ReadJson(r) ==
  /\ alive
  /\ pc[r] = "readJson"
  /\ LET body == req[r].body
         o == ChatOutcome(body)
     IN CASE o.next = "catch" ->
               /\ Finish(r, InnerCatch(o.error))
               /\ calls' = calls
          [] o.next = "invalid" ->
               /\ Finish(r, Wrote(sendJson(400, [error |-> <<"Message is required">>])))
               /\ calls' = calls
          [] o.next = "call" ->
               /\ calls' = Append(calls,
                    [req |-> r,
                     turns |-> SendMessage(StartChatHistory(HistoryOf(body)),
                                           MessageOf(body))])
               /\ pc' = [pc EXCEPT ![r] = "sendMessage"]
               /\ UNCHANGED <<alive, res>>
  /\ UNCHANGED <<tree, vercelUrl, req, headers, file, fsReads>>

\* a chat session kept in one module-level variable: the latest one started
CallOfShared(r) == Len(calls)

\* the chat session a handler awaits is the one it started itself
CallOf(r) == CHOOSE i \in 1..Len(calls) : calls[i].req = r

\* await chat.sendMessage / result.response / response.text() succeed
ProviderResolve(r) ==
  /\ alive
  /\ pc[r] = "sendMessage"
  /\ Finish(r, Wrote(sendJson(200,
       [response |-> EchoProvider(calls[CallOf(r)].turns)])))
  /\ UNCHANGED <<tree, vercelUrl, req, headers, file, calls, fsReads>>

ProviderErrors == {<<"fetch failed">>, <<"quota exceeded">>}

\* the provider call throws or rejects
ProviderReject(r, msg) ==
  /\ alive
  /\ pc[r] = "sendMessage"
  /\ Finish(r, InnerCatch(ErrorOf(msg)))
  /\ UNCHANGED <<tree, vercelUrl, req, headers, file, calls, fsReads>>

\* the callback of stat(filePath, ...)
StatDone(r) ==
  /\ alive
  /\ pc[r] = "stat"
  /\ LET pathname == Pathname(req[r].path)
         st == Stat(tree, pathname)
     IN CASE st = "ENOENT" -> SendFile(r, EntryDocument, "text/html")
          [] st = "dir" -> SendFile(r, pathname \o <<"index.html">>, "text/html")
          [] st = "file" -> SendFile(r, pathname, ContentTypeFor(ExtName(pathname)))
          [] OTHER ->
               /\ Finish(r, Wrote(EndText(500, "", "Internal Server Error")))
               /\ UNCHANGED <<file, fsReads>>
  /\ UNCHANGED <<tree, vercelUrl, req, headers, calls>>

\* the read stream's 'open' (then pipe) or 'error' event
StreamDone(r) ==
  /\ alive
  /\ pc[r] = "stream"
  /\ IF Readable(tree, file[r].path)
     THEN Finish(r, Wrote(Piped(file[r].ctype, file[r].path)))
     ELSE Finish(r, Wrote(EndText(404,
            IF Stat(tree, file[r].path) = "dir" THEN file[r].ctype ELSE "",
            "Not Found")))
  /\ UNCHANGED <<tree, vercelUrl, req, headers, file, calls, fsReads>>

\* ------------------------------------------------------------------ browser
UserEntry(text) == ChatTurn(JString(<<"user">>), JString(text))
AssistantEntry(text) == ChatTurn(JString(<<"assistant">>), JString(text))

Pushed(s, role) == [sub |-> s, role |-> role]

\* conversationHistory.slice(0, -1)
DropLast(h) == SubSeq(h, 1, Len(h) - 1)

\* response.ok
Ok(response) == response.status \in 200..299

\* The submit handler up to its await of fetch: trims the input, pushes the
\* user message and sends {message, conversationHistory}.
Submit(s, input) ==
  /\ cpc[s] = "idle"
  /\ LET message == trim(input)
         history == Append(conversationHistory, UserEntry(message))
     IN /\ message # <<>>
        /\ conversationHistory' = history
        /\ pushedBy' = Append(pushedBy, Pushed(s, "user"))
        /\ sent' = [sent EXCEPT ![s] =
             Request("POST", ChatPath, "http://localhost:3001",
                     ObjectBody(JString(message), JArray(history)))]
        /\ sentBy' = [sentBy EXCEPT ![s] = pushedBy']
  /\ cpc' = [cpc EXCEPT ![s] = "fetch"]
  /\ UNCHANGED serverVars

\* the catch block of the submit handler
CatchBlock(s) ==
  /\ conversationHistory' = DropLast(conversationHistory)
  /\ pushedBy' = DropLast(pushedBy)

\* fetch resolved and the handler resumes: !response.ok throws into the catch
\* block, otherwise the reply is pushed when data.response is truthy
FetchSettle(s) ==
  /\ cpc[s] = "fetch"
  /\ pc[s] = "done"
  /\ IF ~Ok(res[s])
     THEN CatchBlock(s)
     ELSE IF res[s].kind = "json" /\ "response" \in DOMAIN res[s].payload
             /\ res[s].payload.response # <<>>
     THEN /\ conversationHistory' =
               Append(conversationHistory, AssistantEntry(res[s].payload.response))
          /\ pushedBy' = Append(pushedBy, Pushed(s, "assistant"))
     ELSE UNCHANGED <<conversationHistory, pushedBy>>
  /\ cpc' = [cpc EXCEPT ![s] = "settled"]
  /\ UNCHANGED <<sent, sentBy>>
  /\ UNCHANGED serverVars

\* fetch rejects (the network fails)
FetchReject(s) ==
  /\ cpc[s] = "fetch"
  /\ CatchBlock(s)
  /\ cpc' = [cpc EXCEPT ![s] = "settled"]
  /\ UNCHANGED <<sent, sentBy>>
  /\ UNCHANGED serverVars

\* the request of submission s reaches the server
Deliver(s) ==
  /\ cpc[s] = "fetch"
  /\ Accept(s, sent[s])
  /\ UNCHANGED clientVars

\* ----------------------------------------------------------- specifications
SampleOrigin == "http://a.example"

SampleHistories ==
  {NoHistory,
   JArray(<<ChatTurn(JString(<<"user">>), JString(<<"b">>)),
            ChatTurn(JString(<<"system">>), JString(<<"a">>))>>)}

SampleMessages ==
  {Undefined, JNumber, JString(<<>>), JString(<<" ">>), JString(<<"a">>),
   JString(<<"b">>)}

SampleBodies ==
  {AbortedBody, MalformedBody, NullBody}
    \cup {ObjectBody(m, h) : m \in SampleMessages, h \in SampleHistories}

\* the requests the gateway is driven with
GatewaySamples ==
  {Request("OPTIONS", <<>>, "", MalformedBody),
   Request("OPTIONS", ChatPath, SampleOrigin, MalformedBody),
   BadHost(Request("OPTIONS", <<"health">>, "", MalformedBody)),
   Request("PUT", ChatPath, "", NullBody),
   Request("POST", <<"health">>, "", NullBody),
   BadHost(Request("POST", ChatPath, "", NullBody))}
    \cup {Request("GET", p, "", MalformedBody) :
            p \in {<<>>, <<"app.js">>, <<"assets">>, <<"does-not-exist.xyz">>,
                   <<"health">>, <<"index.html", "foo">>, ChatPath}}
    \cup {Request("POST", ChatPath, SampleOrigin, b) : b \in SampleBodies}

\* one step of the handler of request r
Handle(r) ==
  \/ \E q \in GatewaySamples : Accept(r, q)
  \/ ReadJson(r)
  \/ ProviderResolve(r)
  \/ \E msg \in ProviderErrors : ProviderReject(r, msg)
  \/ StatDone(r)
  \/ StreamDone(r)

Next == \E r \in Reqs : Handle(r) /\ UNCHANGED clientVars

Spec == Init /\ [][Next]_vars

\* The relay alone: chat requests drawn from every message and history.
RelayRoles ==
  {JString(<<"user">>), JString(<<"User">>), JString(<<"assistant">>),
   JString(<<"model">>), JString(<<"system">>), Undefined}

RelayContents == {JString(<<"a">>), JString(<<"b">>), Undefined}

RelayHistories ==
  {NoHistory, NotAnArray}
    \cup {JArray(h) :
            h \in SeqsUpTo({ChatTurn(r, c) : r \in RelayRoles, c \in RelayContents},
                           MaxHist)}

RelayMessages == {Undefined, JNumber, JNull} \cup {JString(t) : t \in Texts}

RelayInit == Init /\ tree = TreeWithEntry /\ vercelUrl = ""

RelayNext ==
  /\ \/ /\ pc[1] = "new"
        /\ \E m \in RelayMessages, h \in RelayHistories :
             Accept(1, Request("POST", ChatPath, "", ObjectBody(m, h)))
     \/ ReadJson(1)
     \/ ProviderResolve(1)
     \/ \E msg \in ProviderErrors : ProviderReject(1, msg)
  /\ UNCHANGED clientVars

SpecRelay == RelayInit /\ [][RelayNext]_vars

\* The browser client in front of the server.
ClientInit == Init /\ tree = TreeWithEntry /\ vercelUrl = ""

ClientNext ==
  \E s \in Reqs :
    \/ \E input \in Texts : Submit(s, input)
    \/ Deliver(s)
    \/ ReadJson(s) /\ UNCHANGED clientVars
    \/ ProviderResolve(s) /\ UNCHANGED clientVars
    \/ (\E msg \in ProviderErrors : ProviderReject(s, msg)) /\ UNCHANGED clientVars
    \/ FetchSettle(s)
    \/ FetchReject(s)

SpecClient == ClientInit /\ [][ClientNext]_vars

\* ------------------------------------------------------------------ claims
IsChatPost(q) == q.method = "POST" /\ q.urlOk /\ q.path = ChatPath

Blank(text) == \A i \in 1..Len(text) : text[i] \in Whitespace

\* the body parsed as JSON and its message is missing, not a string, empty
\* or whitespace-only
InvalidMessage(body) ==
  \/ body.t = "null"
  \/ body.t = "object" /\ (body.message.t # "string" \/ Blank(body.message.v))

ValidChat(q) ==
  /\ IsChatPost(q)
  /\ q.body.t = "object"
  /\ q.body.message.t = "string"
  /\ ~Blank(q.body.message.v)

CalledProvider(r) == \E i \in 1..Len(calls) : calls[i].req = r

\* C1: a POST /api/chat whose body parses as JSON and whose message is
\* missing, not a string, empty or whitespace-only is answered 400
\* {error: "Message is required"}, and the provider is never invoked for it.
C1_InvalidMessageRejected ==
  \A r \in Reqs :
    IsChatPost(req[r]) /\ InvalidMessage(req[r].body) =>
      /\ pc[r] \in {"readJson", "done"}
      /\ ~CalledProvider(r)
      /\ pc[r] = "done" =>
           /\ res[r].status = 400
           /\ res[r].kind = "json"
           /\ DOMAIN res[r].payload = {"error"}
           /\ res[r].payload.error = <<"Message is required">>

C1_Witness ==
  \E r \in Reqs :
    /\ IsChatPost(req[r])
    /\ req[r].body.t = "object"
    /\ req[r].body.message = JString(<<" ">>)
    /\ pc[r] = "done"
    /\ res[r].status = 400

\* the response is JSON with an error field
ErrorResponse(response, statuses) ==
  /\ response.status \in statuses
  /\ response.kind = "json"
  /\ "error" \in DOMAIN response.payload

ChatFailed(r) == IsChatPost(req[r]) /\ pc[r] = "done" /\ res[r].status = 500

\* C2: when handling a POST /api/chat fails (malformed JSON, or the provider
\* call throws or rejects) the request gets an error response with an error
\* field (500 for the provider, 400 or 500 for malformed JSON), the process
\* stays alive, and the handling of every other request can still proceed.
C2_FailureIsolated ==
  /\ [][\A r \in Reqs :
         /\ (\E msg \in ProviderErrors : ProviderReject(r, msg)) =>
              alive' /\ pc'[r] = "done" /\ ErrorResponse(res'[r], {500})
         /\ (ReadJson(r) /\ req[r].body.t = "malformed") =>
              alive' /\ pc'[r] = "done" /\ ErrorResponse(res'[r], {400, 500})]_vars
  /\ [](\A r \in Reqs :
         ChatFailed(r) =>
           /\ alive
           /\ \A r2 \in Reqs : pc[r2] # "done" => ENABLED Handle(r2))

C2_Witness ==
  \E r, r2 \in Reqs :
    /\ ChatFailed(r)
    /\ res[r].payload.details \in ProviderErrors
    /\ ValidChat(req[r2])
    /\ calls[Len(calls)].req = r2
    /\ pc[r2] = "done"
    /\ res[r2].status = 200

\* C3: with several POST /api/chat requests in flight, under every
\* interleaving, the provider is called for each request with that request's
\* own message and history and each request is answered with the (echoing)
\* provider's reply to its own message.
C3_NoCrossRequestBleed ==
  /\ \A i \in 1..Len(calls) :
       LET q == req[calls[i].req]
           h == IF q.body.conversationHistory.t = "array"
                THEN q.body.conversationHistory.items ELSE <<>>
           t == calls[i].turns
       IN /\ ValidChat(q)
          /\ t[Len(t)].text = q.body.message.v
          /\ Len(t) = Len(h) + 3
          /\ \A k \in 1..Len(h) :
               h[k].content.t = "string" => t[2 + k].text = h[k].content.v
  /\ \A r \in Reqs :
       pc[r] = "done" /\ res[r].status = 200 /\ res[r].kind = "json" =>
         /\ ValidChat(req[r])
         /\ res[r].payload.response = req[r].body.message.v

C3_Witness ==
  /\ Len(calls) = 2
  /\ calls[1].req = 2
  /\ calls[2].req = 1
  /\ req[1].body.message # req[2].body.message
  /\ pc[1] = "done"
  /\ res[1].status = 200
  /\ pc[2] = "sendMessage"

\* C4: for a valid chat request with history h and message m the provider
\* sees the system-instruction turn, the greeting turn, one turn per element
\* of h in the same order, and m as the last user turn.
C4_TurnSequence ==
  \A i \in 1..Len(calls) :
    LET q == req[calls[i].req]
        h == IF q.body.conversationHistory.t = "array"
             THEN q.body.conversationHistory.items ELSE <<>>
        t == calls[i].turns
    IN /\ Len(t) = Len(h) + 3
       /\ t[1] = [role |-> "user", text |-> systemPrompt]
       /\ t[2] = [role |-> "model", text |-> greeting]
       /\ \A k \in 1..Len(h) :
            /\ h[k].content.t = "string" => t[2 + k].text = h[k].content.v
            /\ h[k].content.t = "undefined" => t[2 + k].text = <<>>
            /\ h[k].role = JString(<<"user">>) => t[2 + k].role = "user"
            /\ h[k].role # JString(<<"user">>) => t[2 + k].role = "model"
       /\ t[Len(t)] = [role |-> "user", text |-> q.body.message.v]

C4_Witness ==
  \E i \in 1..Len(calls) :
    LET h == req[calls[i].req].body.conversationHistory
    IN /\ h.t = "array"
       /\ Len(h.items) = 2
       /\ h.items[1] # h.items[2]

\* C5: a history turn is given the user role only when its role is exactly
\* "user"; every other role value maps to the model role; and normalizing
\* the normalized role again returns the same role.
C5_RoleNormalization ==
  \A i \in 1..Len(calls) :
    LET h == HistoryOf(req[calls[i].req].body)
        t == calls[i].turns
    IN \A k \in 1..Len(h) :
         LET given == h[k].role
             out == t[2 + k].role
         IN /\ out \in {"user", "model"}
            /\ out = "user" <=> (given.t = "string" /\ given.v = <<"user">>)
            /\ NormalizeRole(JString(<<out>>)) = out

C5_Witness ==
  \E i \in 1..Len(calls) :
    LET h == HistoryOf(req[calls[i].req].body)
        t == calls[i].turns
    IN /\ Len(h) = 2
       /\ h[1].role = JString(<<"user">>)
       /\ h[2].role = JString(<<"system">>)
       /\ t[3].role = "user"
       /\ t[4].role = "model"

CorsNames ==
  {"Access-Control-Allow-Origin", "Access-Control-Allow-Methods",
   "Access-Control-Allow-Headers"}

\* C6: an OPTIONS request to any path is answered 204 with an empty body and
\* the three CORS headers, with no further routing: no provider call and no
\* static file read.
C6_Preflight ==
  \A r \in Reqs :
    req[r].method = "OPTIONS" =>
      /\ pc[r] = "done"
      /\ res[r].status = 204
      /\ res[r].kind = "empty"
      /\ res[r].payload = <<>>
      /\ CorsNames \subseteq DOMAIN headers[r]
      /\ ~CalledProvider(r)
      /\ \A f \in fsReads : f[1] # r

C6_Witness ==
  \E r \in Reqs :
    /\ req[r].method = "OPTIONS"
    /\ req[r].path = ChatPath
    /\ pc[r] = "done"
    /\ res[r].status = 204

\* C7: a GET for a path that does not exist under the static asset root is
\* answered with the entry document public/index.html and status 200
\* whenever the entry document exists.
C7_SpaFallback ==
  \A r \in Reqs :
    /\ req[r].method = "GET"
    /\ req[r].urlOk
    /\ Stat(tree, Pathname(req[r].path)) \notin {"file", "dir"}
    /\ Stat(tree, EntryDocument) = "file"
    /\ pc[r] = "done"
    => /\ res[r].status = 200
       /\ res[r].kind = "file"
       /\ res[r].payload = EntryDocument

\* C8: GET /health answers with a JSON body holding status "ok" and a
\* timestamp.
C8_Health ==
  \A r \in Reqs :
    /\ req[r].method = "GET"
    /\ req[r].urlOk
    /\ req[r].path = <<"health">>
    /\ pc[r] = "done"
    => /\ res[r].kind = "json"
       /\ {"status", "timestamp"} \subseteq DOMAIN res[r].payload

\* the sequence without its element at position i
RemoveAt(seq, i) == SubSeq(seq, 1, i - 1) \o SubSeq(seq, i + 1, Len(seq))

\* the catch block of submission s runs in this step
CatchRuns(s) == FetchReject(s) \/ (FetchSettle(s) /\ ~Ok(res[s]))

\* C9: when a submission fails, the entry removed from conversationHistory
\* is the user message that this submission pushed and every other entry is
\* left as it was, under every interleaving of submissions.
C9_FailureRemovesOwnMessage ==
  [][\A s \in Reqs :
       CatchRuns(s) =>
         \E i \in 1..Len(pushedBy) :
           /\ pushedBy[i] = Pushed(s, "user")
           /\ pushedBy' = RemoveAt(pushedBy, i)
           /\ conversationHistory' = RemoveAt(conversationHistory, i)]_vars

\* C10: end to end, the turns given to the provider for a submission hold
\* the newly submitted message once, as the final user turn, and not among
\* the history turns before it.
C10_MessageOnce ==
  \A i \in 1..Len(calls) :
    LET s == calls[i].req
        t == calls[i].turns
    IN /\ t[Len(t)] = [role |-> "user", text |-> sent[s].body.message.v]
       /\ \A k \in 1..(Len(t) - 3) : sentBy[s][k] # Pushed(s, "user")

====
